---- MODULE Spec2Model ----
(***************************************************************************)
(* GreenRoute (src/app.py): the route-simulation and cumulative-metrics    *)
(* pipeline.  Every Streamlit session re-runs the script on each user      *)
(* interaction: init_db(), then the selected page.  The sessions share the *)
(* SQLite file metrics.db and the process-wide st.cache_data memo of       *)
(* get_metrics_from_db.                                                    *)
(*                                                                         *)
(* Numbers.  The code computes with floats; the model uses exact fixed     *)
(* point: a route distance is a whole number of miles, total_distance is   *)
(* kept in units of 1e-5 km and total_emissions_saved in units of 1e-3 kg, *)
(* so that  miles * 1.60934  and  miles * 0.411  are exact integers.       *)
(* Float rounding is not modelled.                                         *)
(*                                                                         *)
(* Optional values (Python None / a value) are sequences of length 0 or 1. *)
(***************************************************************************)
EXTENDS Integers, Sequences, FiniteSets, TLC

\* ------------------------------------------------------------------ bounds
\* Largest route distance, in miles, the routing provider answers with.
MaxMiles == 2
\* Number of Simulate Route clicks (with both inputs filled) over all sessions.
MaxRoutes == 2

\* --------------------------------------------------------- program constants
\* distance * 0.411 (kg per mile), in 1e-3 kg.
CarbonFactor == 411
\* distance * 1.60934 (km per mile), in 1e-5 km.
KmPerMile == 160934
\* route["distance"] / 1609.34 (meters per mile), in centimetres.
MetersPerMile == 160934
\* "... WHERE id = 1"
RowId == 1

Sessions == {"s1", "s2"}
Miles == 0..MaxMiles
\* route["distance"] as the provider sends it (centimetres): whole miles only.
ProviderDistances == {m * MetersPerMile : m \in Miles}

None == <<>>
Some(x) == <<x>>
Val(o) == o[1]

Totals(d, e) == [td |-> d, te |-> e]
Zero == Totals(0, 0)

VARIABLES
  hasTable,    \* metrics.db holds the table sustainability_metrics
  rows,        \* its committed rows, in rowid order: [id, td, te]
  lock,        \* the session holding SQLite's write lock (open transaction), or None
  cache,       \* st.cache_data memo of get_metrics_from_db(): None or Some(totals)
  pc,          \* each session's position in its script run
  tx,          \* each session's uncommitted write: None or Some([op, td, te])
  row,         \* update_metrics_in_db: row = c.fetchone(), None or Some(totals)
  delta,       \* update_metrics_in_db: (new_distance, new_emissions)
  loaded,      \* get_metrics_from_db: the value computed on a cache miss
  metrics,     \* the page's `metrics`: what the last read of this run returned
  origin_coords,       \* "unset" | "ok" | "none"
  destination_coords,  \* "unset" | "ok" | "none"
  result,      \* get_route_info's result[0]: None (unset or no route) or Some(miles)
  outcome,     \* what the script run showed
  calls,       \* per run: how often get_route_info / update_metrics_in_db were entered
  written,     \* per run: the totals this run's update committed, or None
  simulated,   \* Simulate Route clicks so far (bounded by MaxRoutes)
  sum,         \* history: sum of the deltas of the updates that committed
  lastRead     \* history: the totals the latest completed read returned, or None

vars == <<hasTable, rows, lock, cache, pc, tx, row, delta, loaded, metrics,
          origin_coords, destination_coords, result, outcome, calls, written,
          simulated, sum, lastRead>>

dbVars == <<hasTable, rows, lock>>
pageVars == <<origin_coords, destination_coords, result, outcome, calls, written>>
histVars == <<simulated, sum, lastRead>>
updVars == <<row, delta>>

\* ------------------------------------------------------------ the database
\* SELECT total_distance, total_emissions_saved FROM ... LIMIT 1; fetchone()
FetchOne(rs) == IF rs = <<>> THEN None ELSE Some(Totals(rs[1].td, rs[1].te))

\* The rowid SQLite gives an INSERT without an id: largest rowid + 1.
NextRowId(rs) == IF rs = <<>> THEN 1 ELSE rs[Len(rs)].id + 1

\* INSERT INTO sustainability_metrics (total_distance, total_emissions_saved) VALUES (?, ?)
InsertRow(rs, t) == Append(rs, [id |-> NextRowId(rs), td |-> t.td, te |-> t.te])

\* UPDATE ... SET total_distance = ?, total_emissions_saved = ? WHERE id = 1
UpdateRow(rs, t) ==
  IF rs = <<>> THEN <<>>
  ELSE [i \in 1..Len(rs) |-> IF rs[i].id = RowId
                             THEN [id |-> rs[i].id, td |-> t.td, te |-> t.te]
                             ELSE rs[i]]

\* conn.commit(): the transaction's write reaches the file.
ApplyTx(rs, w) ==
  IF w = None THEN rs
  ELSE IF Val(w).op = "insert" THEN InsertRow(rs, Val(w)) ELSE UpdateRow(rs, Val(w))

\* What a failed statement or commit leaves in the file: the connection is dropped
\* with its transaction open, which SQLite rolls back.
RolledBackPartial(rs, w) == ApplyTx(rs, w)
RolledBack(rs, w) == rs

\* The persisted totals as a read sees them (row None -> zeros).
RowOrZero(o) == IF o = None THEN Zero ELSE Val(o)
Persisted == RowOrZero(FetchOne(rows))

Init ==
  /\ hasTable = FALSE
  /\ rows = <<>>
  /\ lock = None
  /\ cache = None
  /\ pc = [s \in Sessions |-> "idle"]
  /\ tx = [s \in Sessions |-> None]
  /\ row = [s \in Sessions |-> None]
  /\ delta = [s \in Sessions |-> Zero]
  /\ loaded = [s \in Sessions |-> Zero]
  /\ metrics = [s \in Sessions |-> None]
  /\ origin_coords = [s \in Sessions |-> "unset"]
  /\ destination_coords = [s \in Sessions |-> "unset"]
  /\ result = [s \in Sessions |-> None]
  /\ outcome = [s \in Sessions |-> "none"]
  /\ calls = [s \in Sessions |-> [route |-> 0, update |-> 0]]
  /\ written = [s \in Sessions |-> None]
  /\ simulated = 0
  /\ sum = Zero
  /\ lastRead = None

\* ------------------------------------------------------------ script run
\* A user interaction (or the first page load) starts a run of the script.
Finished(s) == pc[s] \in {"idle", "done", "crashed"}

Begin(s, at) ==
  /\ Finished(s)
  /\ pc' = [pc EXCEPT ![s] = at]
  /\ metrics' = [metrics EXCEPT ![s] = None]
  /\ origin_coords' = [origin_coords EXCEPT ![s] = "unset"]
  /\ destination_coords' = [destination_coords EXCEPT ![s] = "unset"]
  /\ result' = [result EXCEPT ![s] = None]
  /\ outcome' = [outcome EXCEPT ![s] = "none"]
  /\ calls' = [calls EXCEPT ![s] = [route |-> 0, update |-> 0]]
  /\ written' = [written EXCEPT ![s] = None]
  /\ row' = [row EXCEPT ![s] = None]
  /\ delta' = [delta EXCEPT ![s] = Zero]
  /\ loaded' = [loaded EXCEPT ![s] = Zero]
  /\ UNCHANGED <<dbVars, cache, tx, histVars>>

\* The script runs top to bottom: init_db() first (line 55).
ScriptRun(s) == Begin(s, "init_db")

\* ---------------------------------------------------------------- init_db
\* CREATE TABLE IF NOT EXISTS sustainability_metrics (...)
init_db_create(s) ==
  /\ pc[s] = "init_db"
  /\ hasTable' = TRUE
  /\ pc' = [pc EXCEPT ![s] = "init_select"]
  /\ UNCHANGED <<rows, lock, cache, tx, updVars, loaded, metrics, pageVars, histVars>>

\* SELECT * FROM sustainability_metrics LIMIT 1; if c.fetchone() is None: ...
init_db_select(s) ==
  /\ pc[s] = "init_select"
  /\ hasTable
  /\ pc' = [pc EXCEPT ![s] = IF FetchOne(rows) = None THEN "init_insert" ELSE "page"]
  /\ UNCHANGED <<dbVars, cache, tx, updVars, loaded, metrics, pageVars, histVars>>

\* INSERT ... VALUES (0.0, 0.0): opens the transaction, taking the write lock.
init_db_insert(s) ==
  /\ pc[s] = "init_insert"
  /\ lock = None
  /\ lock' = Some(s)
  /\ tx' = [tx EXCEPT ![s] = Some([op |-> "insert", td |-> 0, te |-> 0])]
  /\ pc' = [pc EXCEPT ![s] = "init_commit"]
  /\ UNCHANGED <<hasTable, rows, cache, updVars, loaded, metrics, pageVars, histVars>>

\* conn.commit(); conn.close()
init_db_commit(s) ==
  /\ pc[s] = "init_commit"
  /\ rows' = ApplyTx(rows, tx[s])
  /\ lock' = None
  /\ tx' = [tx EXCEPT ![s] = None]
  /\ pc' = [pc EXCEPT ![s] = "page"]
  /\ UNCHANGED <<hasTable, cache, updVars, loaded, metrics, pageVars, histVars>>

\* ------------------------------------------------------ get_metrics_from_db
\* Which page's read this is, for the run's outcome.
ReadOutcome(s) == IF calls[s].update > 0 THEN "route_shown" ELSE "metrics_shown"

\* @st.cache_data keeps one process-wide memo for the function, shared by all
\* sessions: a call looks the memo up, a hit returns the stored value, a miss runs
\* the body and stores what it computed; .clear() empties the memo.
get_metrics_lookup(s) ==
  /\ pc[s] = "read"
  /\ IF cache # None
     THEN /\ metrics' = [metrics EXCEPT ![s] = cache]
          /\ lastRead' = cache
          /\ outcome' = [outcome EXCEPT ![s] = ReadOutcome(s)]
          /\ pc' = [pc EXCEPT ![s] = "done"]
     ELSE /\ pc' = [pc EXCEPT ![s] = "read_select"]
          /\ UNCHANGED <<metrics, lastRead, outcome>>
  /\ UNCHANGED <<dbVars, cache, tx, updVars, loaded, origin_coords,
                 destination_coords, result, calls, written, simulated, sum>>

\* A miss runs the function body: SELECT ... LIMIT 1; row None -> zeros.
get_metrics_select(s) ==
  /\ pc[s] = "read_select"
  /\ hasTable
  /\ loaded' = [loaded EXCEPT ![s] = RowOrZero(FetchOne(rows))]
  /\ pc' = [pc EXCEPT ![s] = "read_store"]
  /\ UNCHANGED <<dbVars, cache, tx, updVars, metrics, pageVars, histVars>>

\* The computed value is stored in the memo and returned.
get_metrics_store(s) ==
  /\ pc[s] = "read_store"
  /\ cache' = Some(loaded[s])
  /\ metrics' = [metrics EXCEPT ![s] = Some(loaded[s])]
  /\ lastRead' = Some(loaded[s])
  /\ outcome' = [outcome EXCEPT ![s] = ReadOutcome(s)]
  /\ pc' = [pc EXCEPT ![s] = "done"]
  /\ UNCHANGED <<dbVars, tx, updVars, loaded, origin_coords, destination_coords,
                 result, calls, written, simulated, sum>>

\* ----------------------------------------------------- update_metrics_in_db
\* new_total_distance = current_distance + new_distance (and emissions alike)
NewTotalsOverwrite(cur, d) == Totals(d.td, d.te)
NewTotals(cur, d) == Totals(cur.td + d.td, cur.te + d.te)

\* SELECT ... LIMIT 1; row = c.fetchone()
update_metrics_select(s) ==
  /\ pc[s] = "upd_select"
  /\ hasTable
  /\ row' = [row EXCEPT ![s] = FetchOne(rows)]
  /\ pc' = [pc EXCEPT ![s] = "upd_update"]
  /\ UNCHANGED <<dbVars, cache, tx, delta, loaded, metrics, pageVars, histVars>>

\* row None -> current = (0.0, 0.0); the new totals; UPDATE ... WHERE id = 1,
\* which opens the transaction, taking the write lock.
update_metrics_update(s) ==
  /\ pc[s] = "upd_update"
  /\ lock = None
  /\ lock' = Some(s)
  /\ LET t == NewTotals(RowOrZero(row[s]), delta[s])
     IN tx' = [tx EXCEPT ![s] = Some([op |-> "update", td |-> t.td, te |-> t.te])]
  /\ pc' = [pc EXCEPT ![s] = "upd_commit"]
  /\ UNCHANGED <<hasTable, rows, cache, updVars, loaded, metrics, pageVars, histVars>>

\* conn.commit(); conn.close()
update_metrics_commit(s) ==
  /\ pc[s] = "upd_commit"
  /\ rows' = ApplyTx(rows, tx[s])
  /\ lock' = None
  /\ written' = [written EXCEPT ![s] = Some(Totals(Val(tx[s]).td, Val(tx[s]).te))]
  /\ tx' = [tx EXCEPT ![s] = None]
  /\ sum' = Totals(sum.td + delta[s].td, sum.te + delta[s].te)
  /\ pc' = [pc EXCEPT ![s] = "upd_clear"]
  /\ UNCHANGED <<hasTable, cache, updVars, loaded, metrics, origin_coords,
                 destination_coords, result, outcome, calls, simulated, lastRead>>

\* get_metrics_from_db.clear(); the page goes on to get_sustainability_metrics().
update_metrics_clear(s) ==
  /\ pc[s] = "upd_clear"
  /\ cache' = None
  /\ pc' = [pc EXCEPT ![s] = "read"]
  /\ UNCHANGED <<dbVars, tx, updVars, loaded, metrics, pageVars, histVars>>

\* ------------------------------------------------------- persistence failure
\* sqlite3 raises on a statement or on commit (locked past the busy timeout,
\* I/O error): the exception leaves the function, which has no handler, and ends
\* the script run.  The connection is never committed; its transaction is rolled
\* back and its lock released when the connection is dropped.  A write statement
\* that finds the lock taken waits (its guard) or fails here.
InUpdate == {"upd_select", "upd_update", "upd_commit"}
DbSteps == {"init_select", "init_insert", "init_commit", "read_select"} \cup InUpdate

PersistenceFailure(s) ==
  /\ pc[s] \in DbSteps
  /\ rows' = RolledBack(rows, tx[s])
  /\ lock' = IF lock = Some(s) THEN None ELSE lock
  /\ tx' = [tx EXCEPT ![s] = None]
  /\ outcome' = [outcome EXCEPT ![s] = pc[s]]
  /\ pc' = [pc EXCEPT ![s] = "crashed"]
  /\ UNCHANGED <<hasTable, cache, updVars, loaded, metrics, origin_coords,
                 destination_coords, result, calls, written, histVars>>

\* ------------------------------------------------------------------- pages
\* page == "Sustainability Metrics": metrics = get_sustainability_metrics()
MetricsPage(s) ==
  /\ pc[s] = "page"
  /\ pc' = [pc EXCEPT ![s] = "read"]
  /\ UNCHANGED <<dbVars, cache, tx, updVars, loaded, metrics, pageVars, histVars>>

\* Any other page, or the simulator page without the button pressed.
OtherPage(s) ==
  /\ pc[s] = "page"
  /\ outcome' = [outcome EXCEPT ![s] = "other"]
  /\ pc' = [pc EXCEPT ![s] = "done"]
  /\ UNCHANGED <<dbVars, cache, tx, updVars, loaded, metrics, origin_coords,
                 destination_coords, result, calls, written, histVars>>

\* The text inputs: empty, or some address.
Inputs == {"", "New York, NY"}

\* if st.button("Simulate Route"): if origin and destination: ... else: st.warning
SimulateRoute(s, origin, destination) ==
  /\ pc[s] = "page"
  /\ IF origin # "" /\ destination # ""
     THEN /\ simulated < MaxRoutes
          /\ simulated' = simulated + 1
          /\ pc' = [pc EXCEPT ![s] = "geo_origin"]
          /\ UNCHANGED outcome
     ELSE /\ outcome' = [outcome EXCEPT ![s] = "warning"]
          /\ pc' = [pc EXCEPT ![s] = "done"]
          /\ UNCHANGED simulated
  /\ UNCHANGED <<dbVars, cache, tx, updVars, loaded, metrics, origin_coords,
                 destination_coords, result, calls, written, sum, lastRead>>

\* What the geocoding provider answers: a match, an empty list, or a non-200 status.
GeoReplies == {[status |-> 200, data |-> Some("latlon")],
               [status |-> 200, data |-> None],
               [status |-> 500, data |-> None]}

\* get_coordinates: (lat, lon) on status 200 with data, else (None, None).
get_coordinates(reply) ==
  IF reply.status = 200 /\ reply.data # None THEN "ok" ELSE "none"

\* if None in origin_coords or None in destination_coords
GeocodeFailedOriginOnly(o, d) == o = "none"
GeocodeFailed(o, d) == o = "none" \/ d = "none"

\* origin_coords = get_coordinates(origin), once the provider has answered.
GeocodeOrigin(s, reply) ==
  /\ pc[s] = "geo_origin"
  /\ origin_coords' = [origin_coords EXCEPT ![s] = get_coordinates(reply)]
  /\ pc' = [pc EXCEPT ![s] = "geo_destination"]
  /\ UNCHANGED <<dbVars, cache, tx, updVars, loaded, metrics, destination_coords,
                 result, outcome, calls, written, histVars>>

\* destination_coords = get_coordinates(destination), then the None check.
GeocodeDestination(s, reply) ==
  /\ pc[s] = "geo_destination"
  /\ destination_coords' = [destination_coords EXCEPT ![s] = get_coordinates(reply)]
  /\ IF GeocodeFailed(origin_coords[s], get_coordinates(reply))
     THEN /\ outcome' = [outcome EXCEPT ![s] = "geocode_error"]
          /\ pc' = [pc EXCEPT ![s] = "done"]
          /\ UNCHANGED calls
     ELSE /\ calls' = [calls EXCEPT ![s].route = @ + 1]
          /\ pc' = [pc EXCEPT ![s] = "route"]
          /\ UNCHANGED outcome
  /\ UNCHANGED <<dbVars, cache, tx, updVars, loaded, metrics, origin_coords,
                 result, written, histVars>>

\* What the routing provider answers: a route with its distance, no route, or non-200.
RouteReplies == {[status |-> 200, routes |-> Some(d)] : d \in ProviderDistances}
                  \cup {[status |-> 200, routes |-> None], [status |-> 500, routes |-> None]}

\* get_route_info: distance = route["distance"] / 1609.34, or None.
get_route_info(reply) ==
  IF reply.status = 200 /\ reply.routes # None
  THEN Some(Val(reply.routes) \div MetersPerMile)
  ELSE None

\* if result[0] is not None
RouteFoundAlways(r) == TRUE
RouteFound(r) == r # None

\* distance, duration, geometry = result (only read when a route was found)
Distance(r) == IF r = None THEN 0 ELSE Val(r)

\* get_carbon_estimate: distance * 0.411
get_carbon_estimate(distance) == distance * CarbonFactor

\* km_distance = distance * 1.60934
KmDistance(distance) == distance * KmPerMile

\* result = get_route_info(...), once the provider has answered; on a route,
\* update_metrics_in_db(new_distance=km_distance, new_emissions=emissions_estimated)
RouteInfo(s, reply) ==
  /\ pc[s] = "route"
  /\ result' = [result EXCEPT ![s] = get_route_info(reply)]
  /\ IF RouteFound(get_route_info(reply))
     THEN /\ delta' = [delta EXCEPT ![s] =
                         Totals(KmDistance(Distance(get_route_info(reply))),
                                get_carbon_estimate(Distance(get_route_info(reply))))]
          /\ calls' = [calls EXCEPT ![s].update = @ + 1]
          /\ pc' = [pc EXCEPT ![s] = "upd_select"]
          /\ UNCHANGED outcome
     ELSE /\ outcome' = [outcome EXCEPT ![s] = "route_error"]
          /\ pc' = [pc EXCEPT ![s] = "done"]
          /\ UNCHANGED <<delta, calls>>
  /\ UNCHANGED <<dbVars, cache, tx, row, loaded, metrics, origin_coords,
                 destination_coords, written, histVars>>

\* ------------------------------------------------------------ specifications
\* Steps of the program itself.
Local(s) ==
  \/ init_db_create(s)
  \/ init_db_select(s)
  \/ init_db_insert(s)
  \/ init_db_commit(s)
  \/ get_metrics_lookup(s)
  \/ get_metrics_select(s)
  \/ get_metrics_store(s)
  \/ update_metrics_select(s)
  \/ update_metrics_update(s)
  \/ update_metrics_commit(s)
  \/ update_metrics_clear(s)

\* Steps that wait on the user, on a provider's answer, or on a backend fault.
External(s) ==
  \/ ScriptRun(s)
  \/ MetricsPage(s)
  \/ OtherPage(s)
  \/ \E o \in Inputs, d \in Inputs : SimulateRoute(s, o, d)
  \/ \E r \in GeoReplies : GeocodeOrigin(s, r)
  \/ \E r \in GeoReplies : GeocodeDestination(s, r)
  \/ \E r \in RouteReplies : RouteInfo(s, r)
  \/ PersistenceFailure(s)

Next == \E s \in Sessions : Local(s) \/ External(s)

\* Concurrent sessions (two here).
Spec == Init /\ [][Next]_vars

\* One session, its script runs one after another.
NextSeq == Local("s1") \/ External("s1")
SeqSpec == Init /\ [][NextSeq]_vars

\* One session under the scheduling the code has: a step of the program itself is
\* taken once it can be.  Nothing obliges the user to click, a provider to answer,
\* or the backend to fail.
FairSpec == Init /\ [][NextSeq]_vars /\ WF_vars(Local("s1"))

\* The store's functions on their own, as update_metrics_in_db and
\* get_metrics_from_db provide for (their `row is None` branches): called on a
\* table that holds no row, or the zero row, without init_db having run first.
\* In the script itself init_db always runs first, and no row is ever deleted.
StoreInit ==
  /\ hasTable = TRUE
  /\ rows \in {<<>>, <<[id |-> RowId, td |-> 0, te |-> 0]>>}
  /\ lock = None
  /\ cache = None
  /\ pc = [s \in Sessions |-> "idle"]
  /\ tx = [s \in Sessions |-> None]
  /\ row = [s \in Sessions |-> None]
  /\ delta = [s \in Sessions |-> Zero]
  /\ loaded = [s \in Sessions |-> Zero]
  /\ metrics = [s \in Sessions |-> None]
  /\ origin_coords = [s \in Sessions |-> "unset"]
  /\ destination_coords = [s \in Sessions |-> "unset"]
  /\ result = [s \in Sessions |-> None]
  /\ outcome = [s \in Sessions |-> "none"]
  /\ calls = [s \in Sessions |-> [route |-> 0, update |-> 0]]
  /\ written = [s \in Sessions |-> None]
  /\ simulated = 0
  /\ sum = Zero
  /\ lastRead = None

\* A page's code entered directly.
DirectRun(s) == Begin(s, "page")

StoreNext ==
  \/ DirectRun("s1")
  \/ MetricsPage("s1")
  \/ \E o \in Inputs, d \in Inputs : SimulateRoute("s1", o, d)
  \/ \E r \in GeoReplies : GeocodeOrigin("s1", r)
  \/ \E r \in GeoReplies : GeocodeDestination("s1", r)
  \/ \E r \in RouteReplies : RouteInfo("s1", r)
  \/ update_metrics_select("s1")
  \/ update_metrics_update("s1")
  \/ update_metrics_commit("s1")
  \/ update_metrics_clear("s1")
  \/ get_metrics_lookup("s1")
  \/ get_metrics_select("s1")
  \/ get_metrics_store("s1")
  \/ PersistenceFailure("s1")

StoreSpec == StoreInit /\ [][StoreNext]_vars

\* ------------------------------------------------------------------ claims
AtLeast(a, b) == a.td >= b.td /\ a.te >= b.te

\* A call of update_metrics_in_db is under way in session s.
Updating(s) == pc[s] \in InUpdate \cup {"upd_clear"}

\* C1: no lost updates: once every update_metrics_in_db call has completed, the
\* persisted totals equal the initial (zero) totals plus the sum of the deltas of
\* all the completed calls, whatever the interleaving of the sessions' steps.
C1_NoLostUpdates == (\A s \in Sessions : ~Updating(s)) => Persisted = sum

\* C2: read-after-write freshness: the read that follows a completed
\* update_metrics_in_db returns totals that include that update: at least the
\* totals the update wrote, in both fields.
C2_ReadAfterWrite ==
  \A s \in Sessions :
    (pc[s] = "done" /\ outcome[s] = "route_shown")
      => AtLeast(Val(metrics[s]), Val(written[s]))

\* C3: no stale-read regression: each completed read returns totals at least
\* those the read completed before it returned, across all sessions.
C3_ReadsNonDecreasing ==
  [][(lastRead # None /\ lastRead' # None) => AtLeast(Val(lastRead'), Val(lastRead))]_vars

\* C4: persisted totals never decrease: no step lowers the persisted
\* total_distance or total_emissions_saved, or removes a row.
C4_PersistedNeverDecreases ==
  [][AtLeast(Persisted', Persisted) /\ Len(rows') >= Len(rows)]_vars

Visible == IF cache # None THEN Val(cache) ELSE Persisted

\* Session s's update_metrics_in_db call fails in this step.
UpdateFails(s) == pc[s] \in InUpdate /\ pc'[s] = "crashed"

\* C6: a persistence failure during update_metrics_in_db (on the SELECT, the
\* UPDATE or the commit) leaves the persisted rows unchanged and the cached
\* snapshot in place, so the next read returns what it would have returned.
C6_FailureLeavesTotalsAndCache ==
  [][\A s \in Sessions :
       UpdateFails(s) => rows' = rows /\ cache' = cache /\ Visible' = Visible]_vars

\* C6's case: an update failed on its commit, with its UPDATE pending, while the
\* row held non-zero totals and the memo held a snapshot.
C6_Witness ==
  \E s \in Sessions :
    /\ pc[s] = "crashed" /\ outcome[s] = "upd_commit"
    /\ delta[s] # Zero /\ Persisted # Zero /\ cache # None

\* C7: in a Simulate Route action where get_coordinates returns no coordinates
\* for the origin or for the destination, get_route_info is never called, and
\* the action ends reporting the geocode failure.
C7_GeocodeFailureSkipsRouting ==
  \A s \in Sessions :
    (origin_coords[s] = "none" \/ destination_coords[s] = "none")
      => /\ calls[s].route = 0
         /\ pc[s] # "route"
         /\ destination_coords[s] # "unset"
              => pc[s] = "done" /\ outcome[s] = "geocode_error"

\* C7's case: one action ended on an origin that did not geocode, another on a
\* destination that did not.
C7_Witness ==
  \E s, t \in Sessions :
    /\ origin_coords[s] = "none" /\ outcome[s] = "geocode_error"
    /\ origin_coords[t] = "ok" /\ destination_coords[t] = "none"
    /\ outcome[t] = "geocode_error"

\* The outcomes of a Simulate Route action whose upstream step failed.
UpstreamFailures == {"warning", "geocode_error", "route_error"}

\* Session s takes a step of the simulator page before any update_metrics_in_db.
UpstreamStep(s) ==
  pc[s] \in {"page", "geo_origin", "geo_destination", "route"} /\ pc'[s] # pc[s]

C8_State ==
  \A s \in Sessions :
    /\ calls[s].update <= 1
    /\ calls[s].update = 1
         => /\ result[s] # None
            /\ origin_coords[s] = "ok" /\ destination_coords[s] = "ok"
            /\ calls[s].route = 1
    /\ outcome[s] \in UpstreamFailures => calls[s].update = 0 /\ written[s] = None
    /\ outcome[s] = "route_shown" => calls[s].update = 1 /\ written[s] # None
    /\ written[s] # None => calls[s].update = 1

\* C8: a Simulate Route action whose upstream step fails (empty input, geocode
\* failure, no route) changes neither the persisted rows nor the cached snapshot;
\* update_metrics_in_db is entered only after a route result with a distance, and
\* exactly once in a successful action.
C8_FailedActionLeavesStore ==
  [][/\ C8_State'
     /\ \A s \in Sessions : UpstreamStep(s) => rows' = rows /\ cache' = cache]_vars

\* C8's case: an action ended on a routing failure while the store held non-zero
\* totals and a snapshot, and another action succeeded.
C8_Witness ==
  \E s, t \in Sessions :
    /\ pc[s] = "done" /\ outcome[s] = "route_error" /\ calls[s].route = 1
    /\ pc[t] = "done" /\ outcome[t] = "route_shown"
    /\ Persisted # Zero /\ cache # None

\* C9: sequential accumulation is additive: starting from init_db's zero row,
\* after any number of update_metrics_in_db calls made one after another the
\* persisted totals, and the totals a read returns, are the sums of the deltas.
C9_SequentialAdditive ==
  /\ Persisted = sum
  /\ \A s \in Sessions : metrics[s] # None => Val(metrics[s]) = sum

\* C9's case: two calls of one mile each, the second just shown: twice the delta.
C9_Witness ==
  /\ pc["s1"] = "done" /\ outcome["s1"] = "route_shown"
  /\ delta["s1"] = Totals(KmDistance(1), get_carbon_estimate(1))
  /\ Persisted = Totals(2 * KmDistance(1), 2 * get_carbon_estimate(1))
  /\ metrics["s1"] = Some(Persisted)

\* C10: every Simulate Route action eventually completes, with a route result
\* or a failure, even when a provider never answers.
C10_SimulateCompletes ==
  \A s \in Sessions :
    (pc[s] \in {"geo_origin", "geo_destination", "route"}) ~> Finished(s)

\* C11: singleton row: once the first init_db has completed (which leaves a row
\* in the table: it found one, or inserted and committed one), the table
\* sustainability_metrics holds exactly one row, with id 1, in every reachable
\* state, also when two sessions run init_db concurrently.
C11_SingletonRow == rows # <<>> => Len(rows) = 1 /\ rows[1].id = RowId

====
